---- MODULE Spec2Model ----
(***************************************************************************)
(* Model of ssh_dashboard.py: the probers (get_terminal_logs,              *)
(* get_last_modified, get_git_info), the snapshot aggregator               *)
(* (get_project_stats), the serial HTTP server (run_server, do_GET and its *)
(* serve_* handlers) and the dashboard's poll loop (loadStats).            *)
(*                                                                         *)
(* Representation.                                                         *)
(*   - A Python dict is a function whose domain is its key set; the empty  *)
(*     dict is the empty function.  None is the record NoneValue.          *)
(*   - A call that may raise returns [raised, val, err].                   *)
(*   - A file name is a sequence of pieces whose last piece is its suffix  *)
(*     (<<"a", ".swift">>), a path is a sequence of pieces                 *)
(*     (<<IOS_DIR, "/", "sub", "/", "c", ".swift">>), a text is the        *)
(*     sequence of its lines.                                              *)
(***************************************************************************)
EXTENDS Integers, Sequences, FiniteSets, TLC

VARIABLES
    fs,        \* the filesystem: [ios, android : directory, logs : log directory]
    sys,       \* the process table and the load average
    clock,     \* what datetime.now() returns
    changes,   \* number of environment changes so far
    arrived,   \* number of connections made so far
    backlog,   \* connections waiting in the listen queue (their request paths)
    cur,       \* the request the server is handling, or NoRequest
    last,      \* the response written most recently
    prev,      \* the response written before that one
    termLogs,  \* outcome of the most recent get_terminal_logs call
    gitInfo,   \* outcome of the most recent get_git_info call
    fileStats, \* outcome of the most recent file count / get_last_modified call
    page,      \* the dashboard document: the last-update line and the content region
    inflight,  \* the fetches of /api/stats that have not settled
    polls,     \* number of loadStats calls so far
    lastPoll   \* how the most recently settled fetch ended

vars == <<fs, sys, clock, changes, arrived, backlog, cur, last, prev,
          termLogs, gitInfo, fileStats, page, inflight, polls, lastPoll>>

(***************************************************************************)
(* Bounds of the model.                                                    *)
(***************************************************************************)
MaxLines == 52
MaxMtime == 2
MaxRequests == 2
MaxChanges == 2
MaxPolls == 2

(***************************************************************************)
(* Program constants.                                                      *)
(***************************************************************************)
IOS_DIR == "FlexPort iOS"
ANDROID_DIR == "FlexPort Android"
LOGS_DIR == "terminal_logs"
TailLines == 50
RenderLines == 20

NoneValue == [none |-> TRUE]
EmptyDict == <<>>
Put(d, k, v) == [x \in (DOMAIN d) \cup {k} |-> IF x = k THEN v ELSE d[x]]

Return(v) == [raised |-> FALSE, val |-> v, err |-> ""]
Raise(e) == [raised |-> TRUE, val |-> NoneValue, err |-> e]

\* str.endswith on a name whose last piece is its suffix
EndsWith(name, ext) == Len(name) > 0 /\ name[Len(name)] = ext

\* any(file.endswith(ext) for ext in extensions)
AnyEndsWith(name, extensions) ==
    \E i \in 1..Len(extensions) : EndsWith(name, extensions[i])

\* datetime.isoformat of an instant
IsoFormat(t) == "1970-01-01T00:00:0" \o ToString(t)

RECURSIVE SelectNames(_, _)
\* [f for f in names if f.endswith(ext)], order kept
SelectNames(names, ext) ==
    IF names = <<>> THEN <<>>
    ELSE IF EndsWith(Head(names), ext)
         THEN <<Head(names)>> \o SelectNames(Tail(names), ext)
         ELSE SelectNames(Tail(names), ext)

(***************************************************************************)
(* The operating system, as the program sees it.                           *)
(* A directory is [state, entries, git]; state is "ok", "missing" or       *)
(* "denied" (exists, cannot be listed).  entries is the subtree in walk    *)
(* order; an entry is [dir, name, kind, mtime, stat] where dir is the path *)
(* below the root (<<>> for a top-level entry) and stat = FALSE is an      *)
(* entry whose getmtime raises (a dangling symbolic link).                 *)
(***************************************************************************)
OsPathExists(d) == d.state # "missing"

RECURSIVE TopLevelNames(_)
TopLevelNames(entries) ==
    IF entries = <<>> THEN <<>>
    ELSE IF Head(entries).dir = <<>>
         THEN <<Head(entries).name>> \o TopLevelNames(Tail(entries))
         ELSE TopLevelNames(Tail(entries))

OsListdir(d) ==
    IF d.state = "ok" THEN Return(TopLevelNames(d.entries))
    ELSE IF d.state = "missing" THEN Raise("FileNotFoundError")
    ELSE Raise("PermissionError")

RECURSIVE WalkFiles(_)
\* the (root, file) pairs os.walk yields; a directory that cannot be
\* listed yields nothing, because os.walk ignores listing errors
WalkFiles(entries) ==
    IF entries = <<>> THEN <<>>
    ELSE IF Head(entries).kind = "file"
         THEN <<Head(entries)>> \o WalkFiles(Tail(entries))
         ELSE WalkFiles(Tail(entries))

OsWalk(d) == IF d.state = "ok" THEN WalkFiles(d.entries) ELSE <<>>

\* os.path.join(root, file)
OsPathJoin(directory, e) == <<directory>> \o e.dir \o <<"/">> \o e.name

OsPathGetmtime(e) == IF e.stat THEN Return(e.mtime) ELSE Raise("FileNotFoundError")

RECURSIVE StrReplace(_, _)
\* path.replace(piece, "")
StrReplace(path, piece) ==
    IF path = <<>> THEN <<>>
    ELSE IF Head(path) = piece
         THEN StrReplace(Tail(path), piece)
         ELSE <<Head(path)>> \o StrReplace(Tail(path), piece)

(***************************************************************************)
(* get_last_modified                                                       *)
(***************************************************************************)
RECURSIVE ScanLatest(_, _, _, _)
\* the loop body over the walked files; acc is [time, file, raised]
ScanLatest(files, directory, extensions, acc) ==
    IF files = <<>> \/ acc.raised THEN acc
    ELSE LET e == Head(files)
             m == OsPathGetmtime(e)
         IN  IF ~AnyEndsWith(e.name, extensions)
             THEN ScanLatest(Tail(files), directory, extensions, acc)
             ELSE IF m.raised
                  THEN [acc EXCEPT !.raised = TRUE]
                  ELSE IF m.val > acc.time
                       THEN ScanLatest(Tail(files), directory, extensions,
                                [time |-> m.val, file |-> OsPathJoin(directory, e),
                                 raised |-> FALSE])
                       ELSE ScanLatest(Tail(files), directory, extensions, acc)

\* get_last_modified stamping the file with datetime.now() instead of its mtime
GetLastModifiedStampedNow(directory, d, extensions) ==
    LET acc == ScanLatest(OsWalk(d), directory, extensions,
                          [time |-> 0, file |-> <<>>, raised |-> FALSE])
    IN  IF acc.raised THEN NoneValue
        ELSE IF acc.file # <<>>
             THEN [file |-> StrReplace(acc.file, directory), time |-> IsoFormat(clock)]
             ELSE NoneValue

GetLastModified(directory, d, extensions) ==
    LET acc == ScanLatest(OsWalk(d), directory, extensions,
                          [time |-> 0, file |-> <<>>, raised |-> FALSE])
    IN  IF acc.raised THEN NoneValue
        ELSE IF acc.file # <<>>
             THEN [file |-> StrReplace(acc.file, directory), time |-> IsoFormat(acc.time)]
             ELSE NoneValue

(***************************************************************************)
(* get_git_info.  d.git is [marker, tool, branch, status, log]: whether    *)
(* the .git marker exists, whether the git executable is found, and for    *)
(* each sub-command its [rc, out].  A directory that vanishes after the    *)
(* marker test makes every sub-command exit non-zero with no output.       *)
(***************************************************************************)
NoRepository == [status |-> "No git repository"]

RECURSIVE LStrip(_)
LStrip(text) ==
    IF text = <<>> THEN <<>>
    ELSE IF Head(text) = "" THEN LStrip(Tail(text)) ELSE text

RECURSIVE RStrip(_)
RStrip(text) ==
    IF text = <<>> THEN <<>>
    ELSE IF text[Len(text)] = "" THEN RStrip(SubSeq(text, 1, Len(text) - 1)) ELSE text

\* str.strip: blank lines at either end go
Strip(text) == RStrip(LStrip(text))

\* subprocess.run(['git', '-C', directory, ...], capture_output=True, text=True)
SubprocessRunGit(g, cmd) ==
    IF g.tool THEN Return(g[cmd]) ELSE Raise("FileNotFoundError")

\* the three sub-commands, run once the marker has been found
GitProbe(d) ==
    LET r1 == SubprocessRunGit(d.git, "branch")
        r2 == SubprocessRunGit(d.git, "status")
        r3 == SubprocessRunGit(d.git, "log")
    IN  IF r1.raised THEN [ret |-> NoRepository, calls |-> <<"branch">>]
        ELSE IF r2.raised
             THEN [ret |-> NoRepository, calls |-> <<"branch", "status">>]
        ELSE IF r3.raised
             THEN [ret |-> NoRepository, calls |-> <<"branch", "status", "log">>]
        ELSE [ret |->
                [branch |-> IF r1.val.rc = 0 THEN Strip(r1.val.out)
                            ELSE <<"unknown">>,
                 uncommitted_changes |->
                     IF Strip(r2.val.out) # <<>> THEN Len(Strip(r2.val.out))
                     ELSE 0,
                 last_commit |-> IF r3.val.rc = 0 THEN Strip(r3.val.out)
                                 ELSE <<"No commits">>],
              calls |-> <<"branch", "status", "log">>]

\* get_git_info without the test for the marker
GetGitInfoUnguarded(d) == GitProbe(d)

\* ret is what get_git_info returns, calls the sub-commands it ran
GetGitInfo(d) ==
    IF d.state = "ok" /\ d.git.marker
    THEN GitProbe(d)
    ELSE [ret |-> NoRepository, calls |-> <<>>]

(***************************************************************************)
(* get_terminal_logs.  The log directory is [state, files]; a file is      *)
(* [name, readable, lines].                                                *)
(***************************************************************************)
OpenReadlines(f) == IF f.readable THEN Return(f.lines) ELSE Raise("PermissionError")

\* the first 50 lines instead of the last 50
FirstLines(lines) ==
    IF Len(lines) > TailLines THEN SubSeq(lines, 1, TailLines) ELSE lines

\* lines[-50:] if len(lines) > 50 else lines
LastLines(lines) ==
    IF Len(lines) > TailLines
    THEN SubSeq(lines, Len(lines) - TailLines + 1, Len(lines))
    ELSE lines

RECURSIVE TailEachSkipsUnreadable(_, _)
\* the loop with 'except: continue' for its handler: an unreadable file
\* gets no entry
TailEachSkipsUnreadable(files, logs) ==
    IF files = <<>> THEN logs
    ELSE LET f == Head(files)
             r == OpenReadlines(f)
         IN  IF ~EndsWith(f.name, ".log") \/ r.raised
             THEN TailEachSkipsUnreadable(Tail(files), logs)
             ELSE TailEachSkipsUnreadable(Tail(files),
                      Put(logs, f.name, LastLines(r.val)))

RECURSIVE TailEach(_, _)
\* the loop over os.listdir(LOGS_DIR)
TailEach(files, logs) ==
    IF files = <<>> THEN logs
    ELSE LET f == Head(files)
             r == OpenReadlines(f)
         IN  IF ~EndsWith(f.name, ".log")
             THEN TailEach(Tail(files), logs)
             ELSE IF r.raised
                  THEN TailEach(Tail(files),
                           Put(logs, f.name, <<"Error reading log: " \o r.err>>))
                  ELSE TailEach(Tail(files), Put(logs, f.name, LastLines(r.val)))

GetTerminalLogs(ld) ==
    IF ~OsPathExists(ld) THEN Return(EmptyDict)
    ELSE IF ld.state = "denied" THEN Raise("PermissionError")
    ELSE Return(TailEach(ld.files, EmptyDict))

(***************************************************************************)
(* get_project_stats.  The process table is [ps, out, loadOk, load]: ps    *)
(* and loadOk say whether 'ps aux' can be run and whether os.getloadavg()  *)
(* succeeds; out is the lines 'ps aux' prints, each a sequence of pieces.  *)
(***************************************************************************)
\* str.lower on one piece
Lower(w) == IF w \in {"Claude", "CLAUDE"} THEN "claude" ELSE w

\* 'claude' in line.lower()
MentionsClaude(line) == \E i \in 1..Len(line) : Lower(line[i]) = "claude"

RECURSIVE ClaudeLines(_)
ClaudeLines(out) ==
    IF out = <<>> THEN <<>>
    ELSE IF MentionsClaude(Head(out))
         THEN <<Head(out)>> \o ClaudeLines(Tail(out))
         ELSE ClaudeLines(Tail(out))

\* the "iOS stats" block, after os.listdir has returned names
IosData(d, names) ==
    Put(Put(Put(EmptyDict,
        "swift_files", Len(SelectNames(names, ".swift"))),
        "last_modified", GetLastModified(IOS_DIR, d, <<".swift">>)),
        "git_status", GetGitInfo(d).ret)

\* the "iOS stats" block with 'except: pass' for its handler
IosStatsSilent(d) ==
    LET l == OsListdir(d)
    IN  IF l.raised THEN EmptyDict ELSE IosData(d, l.val)

\* the "iOS stats" block
IosStats(d) ==
    LET l == OsListdir(d)
    IN  IF l.raised THEN Put(EmptyDict, "error", l.err) ELSE IosData(d, l.val)

\* the "Android stats" block
AndroidStats(d) ==
    LET kt == OsListdir(d)
        java == OsListdir(d)
    IN  IF kt.raised THEN Put(EmptyDict, "error", kt.err)
        ELSE IF java.raised THEN Put(EmptyDict, "error", java.err)
        ELSE Put(Put(Put(Put(EmptyDict,
                 "kotlin_files", Len(SelectNames(kt.val, ".kt"))),
                 "java_files", Len(SelectNames(java.val, ".java"))),
                 "last_modified", GetLastModified(ANDROID_DIR, d, <<".kt", ".java">>)),
                 "git_status", GetGitInfo(d).ret)

\* the "System stats" block
SystemStats(s) ==
    IF ~s.ps THEN Put(EmptyDict, "error", "FileNotFoundError")
    ELSE LET counted == Put(EmptyDict, "claude_processes", Len(ClaudeLines(s.out)))
         IN  IF s.loadOk THEN Put(counted, "load_avg", s.load)
             ELSE Put(counted, "error", "OSError")

GetProjectStats(f, s, now) ==
    LET logs == GetTerminalLogs(f.logs)
    IN  IF logs.raised THEN Raise(logs.err)
        ELSE Return([timestamp |-> IsoFormat(now),
                     ios |-> IosStats(f.ios),
                     android |-> AndroidStats(f.android),
                     system |-> SystemStats(s),
                     terminal_logs |-> logs.val])

(***************************************************************************)
(* Environments the specifications draw from.                              *)
(***************************************************************************)
File(dir, name, mtime) ==
    [dir |-> dir, name |-> name, kind |-> "file", mtime |-> mtime, stat |-> TRUE]
DanglingLink(dir, name) ==
    [dir |-> dir, name |-> name, kind |-> "file", mtime |-> 0, stat |-> FALSE]
Dir(dir, name) ==
    [dir |-> dir, name |-> name, kind |-> "dir", mtime |-> 0, stat |-> TRUE]

\* the states one candidate file can be in: absent, a dangling link, or a
\* file with any modification time of the model
FileChoices(dir, name) ==
    {<<>>, <<DanglingLink(dir, name)>>} \cup {<<File(dir, name, t)>> : t \in 0..MaxMtime}

GitOk ==
    [marker |-> TRUE, tool |-> TRUE,
     branch |-> [rc |-> 0, out |-> <<"main", "">>],
     status |-> [rc |-> 0, out |-> <<" M a.swift", "?? b.swift", "">>],
     log |-> [rc |-> 0, out |-> <<"abc123 init", "">>]]
GitNone == [GitOk EXCEPT !.marker = FALSE]
GitToolMissing == [GitOk EXCEPT !.tool = FALSE]

GitStates ==
    [marker : BOOLEAN, tool : BOOLEAN,
     branch : [rc : {0, 128}, out : {<<>>, <<"main", "">>}],
     status : [rc : {0, 128}, out : {<<>>, <<" M a.swift", "">>,
                                      <<" M a.swift", "?? b.swift", "">>}],
     log : [rc : {0, 128}, out : {<<>>, <<"abc123 init", "">>}]]

MissingDir == [state |-> "missing", entries |-> <<>>, git |-> GitNone]
DeniedDir == [state |-> "denied", entries |-> <<>>, git |-> GitNone]
ListableDir(entries, git) == [state |-> "ok", entries |-> entries, git |-> git]

\* the scenario of the specification: a.swift, b.swift and sub/c.swift,
\* sub/c.swift modified last
IosScenario ==
    ListableDir(<<File(<<>>, <<"a", ".swift">>, 1), File(<<>>, <<"b", ".swift">>, 1),
                  Dir(<<>>, <<"sub">>),
                  File(<<"/", "sub">>, <<"c", ".swift">>, 2)>>, GitOk)
AndroidScenario ==
    ListableDir(<<File(<<>>, <<"Main", ".kt">>, 2), File(<<>>, <<"Util", ".java">>, 1),
                  File(<<>>, <<"build", ".gradle">>, 2)>>, GitToolMissing)

IosTrees ==
    {ListableDir(a \o g \o n \o <<Dir(<<>>, <<"sub">>)>> \o c, GitNone) :
        a \in FileChoices(<<>>, <<"a", ".swift">>),
        g \in {<<>>, <<Dir(<<>>, <<"gen", ".swift">>)>>},
        n \in {<<>>, <<File(<<>>, <<"notes", ".md">>, MaxMtime)>>},
        c \in FileChoices(<<"/", "sub">>, <<"c", ".swift">>)}
AndroidTrees ==
    {ListableDir(a \o n \o <<Dir(<<>>, <<"sub">>)>> \o c, GitNone) :
        a \in FileChoices(<<>>, <<"Main", ".kt">>),
        n \in {<<>>, <<File(<<>>, <<"Old", ".java">>, 1)>>},
        c \in FileChoices(<<"/", "sub">>, <<"Util", ".java">>)}

LogLines(n) == [i \in 1..n |-> "line" \o ToString(i)]
LogFile(name, n) == [name |-> name, readable |-> TRUE, lines |-> LogLines(n)]
UnreadableLog(name) == [name |-> name, readable |-> FALSE, lines |-> <<>>]

NoLogDir == [state |-> "missing", files |-> <<>>]
DeniedLogDir == [state |-> "denied", files |-> <<>>]
LogDir(files) == [state |-> "ok", files |-> files]

\* the scenario of the specification: build.log with 5 lines, an empty empty.log
LogScenario == LogDir(<<LogFile(<<"build", ".log">>, 5), LogFile(<<"empty", ".log">>, 0)>>)

LogDirs ==
    {NoLogDir, DeniedLogDir} \cup
    {LogDir(m \o e \o t) :
        m \in {<<UnreadableLog(<<"main", ".log">>)>>}
              \cup {<<LogFile(<<"main", ".log">>, n)>> : n \in 0..MaxLines},
        e \in {<<>>, <<LogFile(<<"empty", ".log">>, 0)>>,
               <<UnreadableLog(<<"empty", ".log">>)>>},
        t \in {<<>>, <<LogFile(<<"notes", ".txt">>, 2)>>}}

\* ps aux prints one line per process; load is os.getloadavg()
SysQuiet == [ps |-> TRUE, out |-> <<<<"root", "ps", "aux">>, <<"">>>>,
             loadOk |-> TRUE, load |-> <<0, 0, 0>>]
SysBusy == [ps |-> TRUE,
            out |-> <<<<"me", "/usr/bin/", "Claude", "--print">>, <<"root", "ps", "aux">>,
                      <<"">>>>,
            loadOk |-> TRUE, load |-> <<2, 1, 1>>]
SysNoPs == [SysQuiet EXCEPT !.ps = FALSE]
SysNoLoad == [SysBusy EXCEPT !.loadOk = FALSE]

(***************************************************************************)
(* Values the variables a specification does not use keep.                 *)
(***************************************************************************)
NoRequest == "none"
NoResponse == [path |-> "none", status |-> 0, body |-> NoneValue,
               fs |-> NoneValue, sys |-> NoneValue]

EnvIdle == /\ sys = SysQuiet /\ clock = 1 /\ changes = 0
ServerIdle == /\ arrived = 0 /\ backlog = <<>> /\ cur = NoRequest
              /\ last = NoResponse /\ prev = NoResponse
ProbersIdle == /\ termLogs = NoneValue /\ gitInfo = NoneValue /\ fileStats = NoneValue
ClientIdle == /\ page = NoneValue /\ inflight = {} /\ polls = 0 /\ lastPoll = NoneValue

envVars == <<fs, sys, clock, changes>>
serverVars == <<arrived, backlog, cur, last, prev>>
proberVars == <<termLogs, gitInfo, fileStats>>
clientVars == <<page, inflight, polls, lastPoll>>

(***************************************************************************)
(* The log tailer on its own: every log directory of the model.            *)
(***************************************************************************)
InitTail ==
    /\ fs \in [ios : {IosScenario}, android : {AndroidScenario}, logs : LogDirs]
    /\ EnvIdle /\ ServerIdle /\ ProbersIdle /\ ClientIdle

CallGetTerminalLogs ==
    /\ termLogs' = GetTerminalLogs(fs.logs)
    /\ UNCHANGED <<envVars, serverVars, gitInfo, fileStats, clientVars>>

NextTail == CallGetTerminalLogs
SpecTail == InitTail /\ [][NextTail]_vars

(***************************************************************************)
(* The version-control prober on its own: every repository state.          *)
(***************************************************************************)
InitGit ==
    /\ fs \in [ios : {[IosScenario EXCEPT !.git = g] : g \in GitStates},
               android : {MissingDir, AndroidScenario}, logs : {LogScenario}]
    /\ EnvIdle /\ ServerIdle /\ ProbersIdle /\ ClientIdle

CallGetGitInfo(p) ==
    /\ gitInfo' = [dir |-> p, ret |-> GetGitInfo(fs[p]).ret, calls |-> GetGitInfo(fs[p]).calls]
    /\ UNCHANGED <<envVars, serverVars, termLogs, fileStats, clientVars>>

NextGit == \E p \in {"ios", "android"} : CallGetGitInfo(p)
SpecGit == InitGit /\ [][NextGit]_vars

(***************************************************************************)
(* The filesystem prober on its own: every tree of the model, under the    *)
(* file count and last-modified search of each project block.              *)
(***************************************************************************)
InitFs ==
    /\ fs \in [ios : IosTrees, android : AndroidTrees, logs : {LogScenario}]
    /\ EnvIdle /\ ServerIdle /\ ProbersIdle /\ ClientIdle

ProbeIos ==
    /\ fileStats' = [dir |-> "ios", extensions |-> <<".swift">>,
                     counts |-> <<"swift_files">>, entry |-> IosStats(fs.ios)]
    /\ UNCHANGED <<envVars, serverVars, termLogs, gitInfo, clientVars>>

ProbeAndroid ==
    /\ fileStats' = [dir |-> "android", extensions |-> <<".kt", ".java">>,
                     counts |-> <<"kotlin_files", "java_files">>,
                     entry |-> AndroidStats(fs.android)]
    /\ UNCHANGED <<envVars, serverVars, termLogs, gitInfo, clientVars>>

NextFs == ProbeIos \/ ProbeAndroid
SpecFs == InitFs /\ [][NextFs]_vars

(***************************************************************************)
(* The server.  run_server builds an HTTPServer, which handles one         *)
(* connection at a time: serve_forever accepts a connection, runs the      *)
(* handler on the same thread to its end, and only then accepts the next.  *)
(* A response is [path, status, body, fs, sys]; fs and sys record the      *)
(* environment the handler read.  Status 0 is a connection closed without  *)
(* a response, which is how an exception in a handler ends.                *)
(***************************************************************************)
Paths == {"/", "/api/stats", "/api/logs", "/api/terminal", "/favicon.ico"}

\* json.dumps and the client's response.json()
JsonDumps(x) == [json |-> x]
JsonParse(b) == b.json

LogWithUnreadable ==
    LogDir(<<LogFile(<<"build", ".log">>, 5), UnreadableLog(<<"claude", ".log">>)>>)

IosStates == {MissingDir, IosScenario}
AndroidStates == {DeniedDir, AndroidScenario}
LogStates == {NoLogDir, DeniedLogDir, LogScenario, LogWithUnreadable}
SysStates == {SysQuiet, SysBusy, SysNoPs, SysNoLoad}

Init ==
    /\ fs \in [ios : IosStates, android : AndroidStates, logs : LogStates]
    /\ sys \in SysStates
    /\ clock = 1 /\ changes = 0
    /\ ServerIdle /\ ProbersIdle /\ ClientIdle

\* a project directory or the log directory changes
FsChange ==
    /\ changes < MaxChanges
    /\ changes' = changes + 1
    /\ \/ \E d \in IosStates \ {fs.ios} : fs' = [fs EXCEPT !.ios = d]
       \/ \E d \in AndroidStates \ {fs.android} : fs' = [fs EXCEPT !.android = d]
       \/ \E d \in LogStates \ {fs.logs} : fs' = [fs EXCEPT !.logs = d]
    /\ UNCHANGED <<sys, clock, serverVars, proberVars, clientVars>>

\* processes start and end, the load moves
SysChange ==
    /\ changes < MaxChanges
    /\ changes' = changes + 1
    /\ \E t \in SysStates \ {sys} : sys' = t
    /\ UNCHANGED <<fs, clock, serverVars, proberVars, clientVars>>

\* a client connects and sends GET path; the connection waits to be accepted
Connect(path) ==
    /\ arrived < MaxRequests
    /\ arrived' = arrived + 1
    /\ backlog' = Append(backlog, path)
    /\ UNCHANGED <<envVars, cur, last, prev, proberVars, clientVars>>

\* serve_forever takes the next connection once no handler is running
Accept ==
    /\ cur = NoRequest
    /\ backlog # <<>>
    /\ cur' = Head(backlog)
    /\ backlog' = Tail(backlog)
    /\ UNCHANGED <<envVars, arrived, last, prev, proberVars, clientVars>>

Respond(r) ==
    /\ prev' = last
    /\ last' = r
    /\ cur' = NoRequest
    /\ UNCHANGED <<fs, sys, changes, arrived, backlog, proberVars, clientVars>>

Response(path, status, body) ==
    [path |-> path, status |-> status, body |-> body, fs |-> fs, sys |-> sys]

ServeDashboard ==
    /\ cur = "/"
    /\ Respond(Response(cur, 200, "<html>loadStats</html>"))
    /\ UNCHANGED clock

ServeStats ==
    /\ cur = "/api/stats"
    /\ LET stats == GetProjectStats(fs, sys, clock)
       IN  IF stats.raised
           THEN Respond(Response(cur, 0, NoneValue))
           ELSE Respond(Response(cur, 200, JsonDumps(stats.val)))
    /\ clock' = clock + 1

ServeLogs ==
    /\ cur = "/api/logs"
    /\ Respond(Response(cur, 200, JsonDumps([logs |-> "Log functionality coming soon"])))
    /\ UNCHANGED clock

ServeTerminalLogs ==
    /\ cur = "/api/terminal"
    /\ LET logs == GetTerminalLogs(fs.logs)
       IN  IF logs.raised
           THEN Respond(Response(cur, 0, NoneValue))
           ELSE Respond(Response(cur, 200, JsonDumps(logs.val)))
    /\ UNCHANGED clock

SendError ==
    /\ cur \notin {NoRequest, "/", "/api/stats", "/api/logs", "/api/terminal"}
    /\ Respond(Response(cur, 404, NoneValue))
    /\ UNCHANGED clock

DoGet == ServeDashboard \/ ServeStats \/ ServeLogs \/ ServeTerminalLogs \/ SendError

\* The snapshot feed under a changing environment: clients poll /api/stats.
Next ==
    \/ FsChange
    \/ SysChange
    \/ Connect("/api/stats")
    \/ Accept
    \/ ServeStats

Spec == Init /\ [][Next]_vars

\* Every route, in each environment.
NextRoutes ==
    \/ \E path \in Paths : Connect(path)
    \/ Accept
    \/ DoGet

SpecRoutes == Init /\ [][NextRoutes]_vars

(***************************************************************************)
(* The dashboard page served by serve_dashboard.  page is [lastUpdate,     *)
(* content]: the text of #last-update and the inner HTML of #content.  A   *)
(* stat is the sequence of the strings concatenated into its div.          *)
(* lastPoll is [outcome, rendered]: how the most recently settled fetch    *)
(* ended and the page as the most recent successful poll left it.          *)
(***************************************************************************)
LoadingPage == [lastUpdate |-> "", content |-> [kind |-> "loading"]]
NoPoll == [outcome |-> "none", rendered |-> NoneValue]

\* lines.slice(-20)
SliceLast(lines) ==
    IF Len(lines) > RenderLines
    THEN SubSeq(lines, Len(lines) - RenderLines + 1, Len(lines))
    ELSE lines

\* new Date(t).toLocaleString()
ToLocaleString(t) == "local " \o t

\* the stat of a section that holds an error note
ErrorStat(e) == <<<<"Error: ", e.error>>>>

LastModifiedStat(e) ==
    IF "last_modified" \in DOMAIN e /\ e.last_modified # NoneValue
    THEN <<<<"Last Modified: ">> \o e.last_modified.file
             \o <<"<br>", ToLocaleString(e.last_modified.time)>>>>
    ELSE <<>>

GitStat(e) ==
    IF "git_status" \in DOMAIN e
    THEN <<<<"Git: ">>
             \o (IF "branch" \in DOMAIN e.git_status THEN e.git_status.branch
                 ELSE <<"undefined">>)
             \o <<" (",
                  IF "uncommitted_changes" \in DOMAIN e.git_status
                  THEN ToString(e.git_status.uncommitted_changes) ELSE "undefined",
                  " changes)">>>>
    ELSE <<>>

CountStat(label, e, k) == <<<<label, IF k \in DOMAIN e THEN ToString(e[k]) ELSE "0">>>>

RenderIos(e) ==
    IF "error" \in DOMAIN e THEN ErrorStat(e)
    ELSE CountStat("Swift Files: ", e, "swift_files") \o LastModifiedStat(e) \o GitStat(e)

RenderAndroid(e) ==
    IF "error" \in DOMAIN e THEN ErrorStat(e)
    ELSE CountStat("Kotlin Files: ", e, "kotlin_files")
         \o CountStat("Java Files: ", e, "java_files")
         \o LastModifiedStat(e) \o GitStat(e)

RenderSystem(e) ==
    IF "error" \in DOMAIN e THEN ErrorStat(e)
    ELSE CountStat("Claude Processes: ", e, "claude_processes")
         \o (IF "load_avg" \in DOMAIN e
             THEN <<<<"Load Average: ">>
                      \o [i \in 1..Len(e.load_avg) |-> ToString(e.load_avg[i]) \o ".00"]>>
             ELSE <<>>)

\* the log boxes, by file name; no box at all shows the "No terminal logs
\* available yet..." stat
RenderLogs(logs) == [n \in DOMAIN logs |-> SliceLast(logs[n])]

\* the then-handler of loadStats
RenderStats(data) ==
    [lastUpdate |-> "Last updated: " \o ToLocaleString(data.timestamp),
     content |-> [kind |-> "stats",
                  ios |-> RenderIos(data.ios),
                  android |-> RenderAndroid(data.android),
                  system |-> RenderSystem(data.system),
                  logs |-> RenderLogs(data.terminal_logs)]]

\* the catch-handler of loadStats, had it left the content region alone
CatchKeepsContent(pg, error) == pg

\* the catch-handler of loadStats
Catch(pg, error) ==
    [pg EXCEPT !.content = [kind |-> "error", message |-> "Error loading data: " \o error]]

InitClient ==
    /\ fs \in [ios : IosStates, android : AndroidStates, logs : LogStates]
    /\ sys \in SysStates
    /\ clock = 1 /\ changes = 0
    /\ ServerIdle /\ ProbersIdle
    /\ page = LoadingPage /\ inflight = {} /\ polls = 0 /\ lastPoll = NoPoll

\* loadStats(): fetch('/api/stats')
LoadStats ==
    /\ polls < MaxPolls
    /\ polls' = polls + 1
    /\ inflight' = inflight \cup {polls + 1}
    /\ UNCHANGED <<envVars, serverVars, proberVars, page, lastPoll>>

\* the script's closing loadStats() call, when the page has loaded
OnLoad == polls = 0 /\ LoadStats
\* setInterval(loadStats, 30000)
OnTimer == polls > 0 /\ LoadStats
\* the Refresh button
OnRefresh == polls > 0 /\ LoadStats

Rejected(p, error) ==
    /\ page' = Catch(page, error)
    /\ lastPoll' = [lastPoll EXCEPT !.outcome = "fail"]
    /\ inflight' = inflight \ {p}

\* the server answers fetch p: a snapshot, or a closed connection
FetchAnswered(p) ==
    /\ p \in inflight
    /\ LET stats == GetProjectStats(fs, sys, clock)
       IN  IF stats.raised
           THEN Rejected(p, "TypeError: Failed to fetch")
           ELSE /\ page' = RenderStats(JsonParse(JsonDumps(stats.val)))
                /\ lastPoll' = [outcome |-> "ok",
                                rendered |-> RenderStats(JsonParse(JsonDumps(stats.val)))]
                /\ inflight' = inflight \ {p}
    /\ clock' = clock + 1
    /\ UNCHANGED <<fs, sys, changes, serverVars, proberVars, polls>>

\* fetch p fails on the way: the server or the tunnel is down
FetchFailed(p) ==
    /\ p \in inflight
    /\ Rejected(p, "TypeError: Failed to fetch")
    /\ UNCHANGED <<envVars, serverVars, proberVars, polls>>

\* between polls the log directory changes
LogsChange ==
    /\ changes < MaxChanges
    /\ changes' = changes + 1
    /\ \E d \in LogStates \ {fs.logs} : fs' = [fs EXCEPT !.logs = d]
    /\ UNCHANGED <<sys, clock, serverVars, proberVars, clientVars>>

NextClient ==
    \/ OnLoad
    \/ OnTimer
    \/ OnRefresh
    \/ \E p \in 1..MaxPolls : FetchAnswered(p)
    \/ \E p \in 1..MaxPolls : FetchFailed(p)
    \/ LogsChange

SpecClient == InitClient /\ [][NextClient]_vars

(***************************************************************************)
(* Properties of the dashboard's poll loop.                                *)
(***************************************************************************)
\* C10: after a poll whose fetch failed, the content rendered by the
\* previous successful poll is still in place.
FailedPollKeepsContent ==
    (lastPoll.outcome = "fail" /\ lastPoll.rendered # NoneValue) =>
        page.content = lastPoll.rendered.content

\* C10, as amended: after a poll whose fetch failed the content region
\* holds one error message and nothing of the previous rendering; the
\* last-update line is still the one of the previous successful poll (empty
\* if there was none).  After a poll that succeeded the page is that poll's
\* rendering.
FailedPollShowsOnlyError ==
    /\ (lastPoll.outcome = "fail") =>
          /\ page.content = [kind |-> "error",
                             message |-> "Error loading data: TypeError: Failed to fetch"]
          /\ page.lastUpdate = IF lastPoll.rendered = NoneValue THEN ""
                               ELSE lastPoll.rendered.lastUpdate
    /\ (lastPoll.outcome = "ok") => page = lastPoll.rendered

\* a poll failed after an earlier poll had rendered a snapshot
FailedPollWitness ==
    /\ lastPoll.outcome = "fail"
    /\ lastPoll.rendered # NoneValue
    /\ lastPoll.rendered.content.kind = "stats"
    /\ page.content.kind = "error"
    /\ page.lastUpdate # ""

(***************************************************************************)
(* Properties of the snapshot feed.                                        *)
(***************************************************************************)
IsErrorNote(e) == "error" \in DOMAIN e
IsSnapshot(r) == r.path = "/api/stats" /\ r.status = 200
Snap(r) == JsonParse(r.body)
LogNames(ld) ==
    {ld.files[i].name : i \in {j \in 1..Len(ld.files) : EndsWith(ld.files[j].name, ".log")}}

\* what a snapshot built on environment (f, t) holds when nothing failed
IosPopulated(e) == DOMAIN e = {"swift_files", "last_modified", "git_status"}
AndroidPopulated(e) ==
    DOMAIN e = {"kotlin_files", "java_files", "last_modified", "git_status"}

\* C1: in every snapshot, a project whose directory is missing or cannot be
\* listed has an error note; a project whose directory can be listed has its
\* populated entry whatever happened to the other one; system and
\* terminal_logs are there; and two snapshots built on the same directory of
\* one project agree on that project's entry, whatever the other project's
\* directory was.
FailureStaysInItsProject ==
    /\ \A r \in {prev, last} : IsSnapshot(r) =>
          /\ (r.fs.ios.state # "ok") => IsErrorNote(Snap(r).ios)
          /\ (r.fs.android.state # "ok") => IsErrorNote(Snap(r).android)
          /\ (r.fs.ios.state = "ok") => IosPopulated(Snap(r).ios)
          /\ (r.fs.android.state = "ok") => AndroidPopulated(Snap(r).android)
          /\ (r.sys.ps /\ r.sys.loadOk) =>
                 DOMAIN Snap(r).system = {"claude_processes", "load_avg"}
          /\ DOMAIN Snap(r).terminal_logs = LogNames(r.fs.logs)
    /\ (IsSnapshot(prev) /\ IsSnapshot(last)) =>
          /\ (prev.fs.ios = last.fs.ios) => Snap(prev).ios = Snap(last).ios
          /\ (prev.fs.android = last.fs.android) =>
                 Snap(prev).android = Snap(last).android

\* the iOS directory went missing between two snapshots and the Android
\* entry stayed what it was
IsolationWitness ==
    /\ IsSnapshot(prev) /\ IsSnapshot(last)
    /\ prev.fs.ios.state = "ok" /\ last.fs.ios.state = "missing"
    /\ last.fs.android.state = "ok" /\ prev.fs.android = last.fs.android
    /\ IsErrorNote(Snap(last).ios)
    /\ AndroidPopulated(Snap(last).android)
    /\ Snap(prev).android = Snap(last).android

\* C2: whatever probe fails, GET /api/stats is answered with status 200 and
\* a snapshot that has timestamp, ios, android, system and terminal_logs.
StatsAlwaysAnswered ==
    \A r \in {prev, last} : (r.path = "/api/stats") =>
        /\ r.status = 200
        /\ DOMAIN Snap(r) = {"timestamp", "ios", "android", "system", "terminal_logs"}

\* a section is an error note and nothing else, or all of its data keys
DataOrErrorNote(e, keys) == IF "error" \in DOMAIN e THEN DOMAIN e = {"error"}
                            ELSE DOMAIN e = keys

\* C12: in every snapshot each of ios, android and system is either data
\* or an error note: with an error key it has no data key, without one it
\* has all of its data keys.
SectionsNeverMixed ==
    \A r \in {prev, last} : IsSnapshot(r) =>
        /\ DataOrErrorNote(Snap(r).ios, {"swift_files", "last_modified", "git_status"})
        /\ DataOrErrorNote(Snap(r).android,
               {"kotlin_files", "java_files", "last_modified", "git_status"})
        /\ DataOrErrorNote(Snap(r).system, {"claude_processes", "load_avg"})

\* C7: two consecutive answers to GET /api/stats built on the same
\* filesystem and log directory are identical in every field but timestamp.
ConsecutiveSnapshotsIdentical ==
    (prev.path = "/api/stats" /\ last.path = "/api/stats" /\ prev.fs = last.fs) =>
        /\ prev.status = last.status
        /\ (last.status = 200) =>
               \A k \in {"ios", "android", "system", "terminal_logs"} :
                   Snap(prev)[k] = Snap(last)[k]

\* C7, as amended: two such answers are identical in ios, android and
\* terminal_logs, and in system too when the process table and the load
\* average are the same.
ConsecutiveSnapshotsAgreeOnFiles ==
    (prev.path = "/api/stats" /\ last.path = "/api/stats" /\ prev.fs = last.fs) =>
        /\ prev.status = last.status
        /\ (last.status = 200) =>
               /\ \A k \in {"ios", "android", "terminal_logs"} :
                      Snap(prev)[k] = Snap(last)[k]
               /\ (prev.sys = last.sys) => Snap(prev).system = Snap(last).system

\* two consecutive snapshots of one filesystem holding files, taken at
\* different times under different process tables
ConsecutiveWitness ==
    /\ IsSnapshot(prev) /\ IsSnapshot(last)
    /\ prev.fs = last.fs /\ prev.sys # last.sys
    /\ last.fs.ios.state = "ok" /\ Snap(last).ios.last_modified # NoneValue
    /\ Snap(prev).timestamp # Snap(last).timestamp
    /\ Snap(prev).ios = Snap(last).ios

\* C9: a connection that arrives while a handler is running can be
\* accepted without waiting for that handler to finish: whenever a
\* connection waits, the server can accept it.
AcceptsWhileBusy == (backlog # <<>>) => ENABLED Accept

(***************************************************************************)
(* Properties of the log tailer.                                           *)
(***************************************************************************)
Min(a, b) == IF a < b THEN a ELSE b

\* C3: for every readable .log file of the log directory, with n lines, the
\* tailer's entry is present and is exactly the last min(n, 50) lines of the
\* file in their order (so at most 50, all of them when n <= 50, none when
\* n = 0).
TailIsLastFifty ==
    (termLogs # NoneValue /\ ~termLogs.raised) =>
        \A i \in 1..Len(fs.logs.files) :
            LET f == fs.logs.files[i]
                n == Len(f.lines)
                k == Min(n, 50)
            IN  (f.readable /\ EndsWith(f.name, ".log")) =>
                    /\ f.name \in DOMAIN termLogs.val
                    /\ Len(termLogs.val[f.name]) = k
                    /\ \A j \in 1..k : termLogs.val[f.name][j] = f.lines[n - k + j]

\* a file of more than 50 lines has been tailed next to an empty one
TailWitness ==
    /\ termLogs # NoneValue /\ ~termLogs.raised
    /\ \E i, j \in 1..Len(fs.logs.files) :
          /\ fs.logs.files[i].readable /\ Len(fs.logs.files[i].lines) > 50
          /\ Len(termLogs.val[fs.logs.files[i].name]) = 50
          /\ fs.logs.files[j].readable /\ fs.logs.files[j].lines = <<>>
          /\ termLogs.val[fs.logs.files[j].name] = <<>>

\* C11: a .log file that is listed but cannot be opened or read has an
\* entry, made of exactly one line that describes the read error; every
\* readable .log file beside it has the entry it has without it, the last
\* min(n, 50) of its lines, and nothing else is in the result.
UnreadableLogIsOneErrorLine ==
    (termLogs # NoneValue /\ ~termLogs.raised) =>
        /\ DOMAIN termLogs.val =
               {fs.logs.files[i].name :
                    i \in {j \in 1..Len(fs.logs.files) :
                               EndsWith(fs.logs.files[j].name, ".log")}}
        /\ \A i \in 1..Len(fs.logs.files) :
               LET f == fs.logs.files[i]
                   n == Len(f.lines)
               IN  EndsWith(f.name, ".log") =>
                       IF f.readable
                       THEN termLogs.val[f.name] =
                                SubSeq(f.lines, n - Min(n, 50) + 1, n)
                       ELSE termLogs.val[f.name] =
                                <<"Error reading log: PermissionError">>

\* an unreadable log has been tailed next to a readable one that has lines
UnreadableLogWitness ==
    /\ termLogs # NoneValue /\ ~termLogs.raised
    /\ \E i, j \in 1..Len(fs.logs.files) :
          /\ ~fs.logs.files[i].readable
          /\ EndsWith(fs.logs.files[i].name, ".log")
          /\ Len(termLogs.val[fs.logs.files[i].name]) = 1
          /\ fs.logs.files[j].readable
          /\ EndsWith(fs.logs.files[j].name, ".log")
          /\ Len(termLogs.val[fs.logs.files[j].name]) > 1

(***************************************************************************)
(* Properties of the version-control prober.                               *)
(***************************************************************************)
Probed == fs[gitInfo.dir]
MarkerPresent(d) == d.state = "ok" /\ d.git.marker
IsVcsStatus(r) == DOMAIN r = {"branch", "uncommitted_changes", "last_commit"}
SubCalls == {"branch", "status", "log"}

\* C4: when the marker is present and the probe fails catastrophically (the
\* version-control tool is not found), the result is an ErrorNote and not
\* the "no repository" sentinel.
FailedProbeIsErrorNote ==
    (gitInfo # NoneValue /\ MarkerPresent(Probed) /\ ~Probed.git.tool) =>
        (IsErrorNote(gitInfo.ret) /\ gitInfo.ret # NoRepository)

\* the value a sub-call's field has when the sub-call succeeds
RealField(g, c, r) ==
    CASE c = "branch" -> r.branch = Strip(g.branch.out)
      [] c = "status" -> r.uncommitted_changes = Len(Strip(g.status.out))
      [] c = "log" -> r.last_commit = Strip(g.log.out)

\* a sub-call's field holds a placeholder instead of a value
PlaceholderField(c, r) ==
    CASE c = "branch" -> r.branch \in {<<"unknown">>, <<"No commits">>}
      [] c = "status" -> r.uncommitted_changes \notin Nat
      [] c = "log" -> r.last_commit \in {<<"unknown">>, <<"No commits">>}

\* C5: with the marker present, when one of the three sub-calls fails and
\* the other two succeed, the probe returns a VcsStatus in which the failed
\* sub-call's field is a placeholder and the other two fields are real.
OneFailureDegradesOneField ==
    (gitInfo # NoneValue /\ MarkerPresent(Probed) /\ Probed.git.tool) =>
        \A c \in SubCalls :
            (Probed.git[c].rc # 0 /\ \A o \in SubCalls \ {c} : Probed.git[o].rc = 0) =>
                /\ IsVcsStatus(gitInfo.ret)
                /\ PlaceholderField(c, gitInfo.ret)
                /\ \A o \in SubCalls \ {c} : RealField(Probed.git, o, gitInfo.ret)

\* C6: a directory without the marker gives exactly the "no repository"
\* sentinel, and no external tool has been invoked.
NoMarkerGivesSentinel ==
    (gitInfo # NoneValue /\ ~MarkerPresent(Probed)) =>
        (gitInfo.ret = NoRepository /\ gitInfo.calls = <<>>)

\* an existing directory without the marker has been probed, with a
\* version-control tool that would have answered
NoMarkerWitness ==
    /\ gitInfo # NoneValue /\ Probed.state = "ok" /\ ~Probed.git.marker
    /\ Probed.git.tool /\ Probed.git.branch.rc = 0
    /\ gitInfo.ret = NoRepository

(***************************************************************************)
(* Properties of the filesystem prober.                                    *)
(***************************************************************************)
Scanned == fs[fileStats.dir]
MatchingFiles(d, extensions) ==
    {i \in 1..Len(d.entries) :
        d.entries[i].kind = "file" /\ AnyEndsWith(d.entries[i].name, extensions)}
TopLevelMatches(d, ext) ==
    {i \in 1..Len(d.entries) :
        d.entries[i].dir = <<>> /\ EndsWith(d.entries[i].name, ext)}
RelativePath(e) == e.dir \o <<"/">> \o e.name

\* C8: for a listable project directory, each file count is the number of
\* top-level entries with that suffix; last_modified is None when no file
\* of the subtree matches, and otherwise names, relative to the root, a
\* matching file whose modification time no matching file exceeds.
CountShallowLatestDeep ==
    (fileStats # NoneValue /\ Scanned.state = "ok") =>
        LET d == Scanned
            m == MatchingFiles(d, fileStats.extensions)
            lm == fileStats.entry.last_modified
        IN  /\ \A i \in 1..Len(fileStats.counts) :
                   fileStats.entry[fileStats.counts[i]] =
                       Cardinality(TopLevelMatches(d, fileStats.extensions[i]))
            /\ (m = {}) => lm = NoneValue
            /\ (m # {}) =>
                   \E i \in m :
                       /\ lm # NoneValue
                       /\ lm.file = RelativePath(d.entries[i])
                       /\ \A j \in m : d.entries[j].stat =>
                              d.entries[j].mtime <= d.entries[i].mtime

====
